---- MODULE Spec2Model ----
(* Model of server.js: the account endpoints over database/accounts.json,  *)
(* the static-file fallback and the /sse/updates subscribers.              *)
(* Each handler body runs synchronously inside its getRequestData(...).then *)
(* callback (readJSON, the checks, writeJSON, the response), so one request *)
(* is one atomic action.  fs.watch callbacks run later, on the event loop.  *)
EXTENDS Integers, Sequences, FiniteSets, TLC

VARIABLES
  accountsFile,  \* contents of database/accounts.json, or NoFile
  now,           \* Date.now()
  ticks,         \* how often the clock has advanced: <<by 1 ms, by ResetValidity>>
  nextToken,     \* the next value of crypto.randomBytes(24): tokens never repeat
  nWrites,       \* number of writeJSON('accounts.json') calls, those of completed resets aside
  resp,          \* the last request handled, with the response it got
  watching,      \* subscribers whose fs.watch on accounts.json is open
  pending,       \* per subscriber: fs.watch callbacks queued on the event loop
  received,      \* per subscriber: 'accounts' events written to it since it connected
  expected,      \* per subscriber: writes of accounts.json since it connected
  lastEvent,     \* the last watcher callback: subscriber, outcome, event written
  signedUp,      \* history: per email, <<password, id>> of its 201 signup
  lastReset,     \* history: per email, <<old password, new password>> of its last reset
  oldPasswords,  \* history: per email, every password a completed reset has replaced
  usedTokens,    \* history: per email, the tokens with which a reset has completed
  issued         \* history: per email, the token its last request-reset returned

vars == <<accountsFile, now, ticks, nextToken, nWrites, resp, watching, pending, received,
          expected, lastEvent, signedUp, lastReset, oldPasswords, usedTokens, issued>>

(* ---------------- bounds ---------------- *)
MaxAccounts == 2
MaxTokens == 2
MaxWrites == 2
MaxTicks == 1
MaxJumps == 1

(* ---------------- values ---------------- *)
\* JS undefined / a field absent from the JSON body or the stored record
Undefined == "undefined"
\* a JSON number sent where a string is expected: truthy, but crypto rejects it
NumPw == "num:123"
\* the file database/accounts.json does not exist (readJSON returns null)
NoFile == [exists |-> FALSE, accounts |-> <<>>]
NoSalt == 0
\* a passwordSalt of "" : a string, so scrypt accepts it
EmptySalt == -1
NoToken == 0
NoId == 0
Null == 0
NullHash == <<>>
ResetValidity == 3600000
StartTime == 2

Emails == {"", "a@x", "b@x"}
Passwords == {"", "p1", "p2", NumPw}
Names == {Undefined, "n1"}
Descriptions == {Undefined, "d1"}
Salts == {1}
\* number of 'change' callbacks fs.watch may make for one writeFileSync (truncate, write)
WatchEvents == {1, 2}
Urls == {"/", "/database/accounts.json"}
None == <<>>
Subscribers == {"s1", "s2"}

\* how a watcher callback ends: the event is written, res.write fails, or the
\* re-read of accounts.json throws
Outcomes == {"sent", "write failed", "read failed"}

\* the account endpoints that read a request body
BodyOps == {"signup", "login", "update", "request-reset", "reset"}
SensitiveFields == {"passwordHash", "passwordSalt", "resetTokenHash", "resetTokenExpiry"}
AccountFields == {"id", "name", "email", "role", "createdAt", "description"} \cup SensitiveFields

\* !x of JavaScript for the values a request field can take
Missing(x) == x = "" \/ x = Undefined

(* ---------------- pure functions ---------------- *)
\* scryptSync throws ERR_INVALID_ARG_TYPE unless password and salt are strings/buffers
hashThrows(password, salt) == password = NumPw \/ salt = NoSalt

hashPassword(password, salt) == <<"scrypt", password, salt>>

md5(password) == <<"md5", password>>

\* a digest that is the same for every token
sha256_Constant(token) == <<"sha256", NoToken>>

sha256(token) == <<"sha256", token>>

\* readJSON('accounts.json') || [] : null when the file cannot be read
readJSON(file) == IF file.exists THEN file.accounts ELSE <<>>

\* the file after writeJSON('accounts.json', accounts)
writeJSON(accounts) == [exists |-> TRUE, accounts |-> accounts]

\* the {passwordHash,passwordSalt,resetTokenHash,resetTokenExpiry,...rest} destructuring
safe(a) == [f \in (DOMAIN a) \ SensitiveFields |-> a[f]]

sanitizeAccountsForPublic(accounts) == [i \in 1..Len(accounts) |-> safe(accounts[i])]

\* a search that does not look at the account appended last
findByEmail_SkipsNewest(accounts, email) ==
  IF \E i \in 1..(Len(accounts) - 1) : accounts[i].email = email
  THEN CHOOSE i \in 1..(Len(accounts) - 1) :
         accounts[i].email = email /\ \A j \in 1..(i-1) : accounts[j].email # email
  ELSE 0

\* accounts.find(a => a.email === email): index of the first match, 0 if none
findByEmail(accounts, email) ==
  IF \E i \in 1..Len(accounts) : accounts[i].email = email
  THEN CHOOSE i \in 1..Len(accounts) :
         accounts[i].email = email /\ \A j \in 1..(i-1) : accounts[j].email # email
  ELSE 0

findById(accounts, id) ==
  IF \E i \in 1..Len(accounts) : accounts[i].id = id
  THEN CHOOSE i \in 1..Len(accounts) :
         accounts[i].id = id /\ \A j \in 1..(i-1) : accounts[j].id # id
  ELSE 0

emailExists_Never(accounts, email) == FALSE

\* accounts.find(a => a.email === email) is truthy
emailExists(accounts, email) == findByEmail(accounts, email) # 0

verify_NoSalt(password, acct) == hashPassword(password, NoSalt) = acct.passwordHash

\* scryptHash === acct.passwordHash, with scryptHash = hashPassword(password, acct.passwordSalt)
verify(password, acct) == hashPassword(password, acct.passwordSalt) = acct.passwordHash

setPassword_SaltOnly(acct, password, salt) == [acct EXCEPT !.passwordSalt = salt]

\* acct.passwordSalt = salt; acct.passwordHash = hashPassword(password, salt)
setPassword(acct, password, salt) ==
  [acct EXCEPT !.passwordSalt = salt, !.passwordHash = hashPassword(password, salt)]

expired_Never(t, acct) == FALSE

\* Date.now() > acct.resetTokenExpiry
expired(t, acct) == t > acct.resetTokenExpiry

\* a request that stores the token hash and no expiry time
issue_HashOnly(acct, token, t) == [acct EXCEPT !.resetTokenHash = sha256(token)]

\* acct.resetTokenHash = sha256(token); acct.resetTokenExpiry = Date.now() + 1000*60*60
issue(acct, token, t) ==
  [acct EXCEPT !.resetTokenHash = sha256(token), !.resetTokenExpiry = t + ResetValidity]

consume_Nothing(acct) == acct

\* acct.resetTokenHash = null; acct.resetTokenExpiry = null
consume(acct) == [acct EXCEPT !.resetTokenHash = NullHash, !.resetTokenExpiry = Null]

applyUpdate_DropsCredential(acct, name, description) ==
  [acct EXCEPT !.name = IF name # Undefined THEN name ELSE @,
               !.description = IF description # Undefined THEN description ELSE @,
               !.passwordHash = NullHash]

\* if(typeof name === 'string') acct.name = name; the same for description
applyUpdate(acct, name, description) ==
  [acct EXCEPT !.name = IF name # Undefined THEN name ELSE @,
               !.description = IF description # Undefined THEN description ELSE @]

\* an account as left in accounts.json by an older version: md5 digest, no scrypt hash
LegacyAccount(salt) ==
  [id |-> 1, name |-> "legacy", email |-> "b@x", role |-> "user", createdAt |-> 1,
   description |-> Undefined,
   passwordHash |-> md5("p1"), passwordSalt |-> salt,
   resetTokenHash |-> NullHash, resetTokenExpiry |-> Null]

(* ---------------- responses ---------------- *)
NoReq == [op |-> "none", email |-> "", password |-> "", token |-> NoToken, id |-> NoId,
          status |-> 0, json |-> TRUE, error |-> "", accounts |-> <<>>, wrote |-> FALSE,
          thrown |-> ""]

Request(op, email, password, token, id) ==
  [NoReq EXCEPT !.op = op, !.email = email, !.password = password, !.token = token, !.id = id]

Error(rq, status, msg) == [rq EXCEPT !.status = status, !.error = msg]

\* res.writeHead(400); res.end('invalid body') : a text body, not JSON
TextError(rq, status, msg) == [rq EXCEPT !.status = status, !.error = msg, !.json = FALSE]

\* the .catch of a handler's promise: it runs when getRequestData rejects
\* (thrown = "body") and when the body callback throws (thrown = "hash")
catchText(rq, thrown) == [TextError(rq, 400, "invalid body") EXCEPT !.thrown = thrown]

catchJSON(rq, thrown) == [Error(rq, 400, "invalid body") EXCEPT !.thrown = thrown]

Ok(rq, status, views) == [rq EXCEPT !.status = status, !.accounts = views]

(* ---------------- handlers ---------------- *)
\* Each handler maps the store and the request to the response and the file
\* contents after it ("file" is left as it was when nothing is written).

\* POST /api/accounts
signup(file, email, password, name, salt, t) ==
  LET rq == Request("signup", email, password, NoToken, NoId)
      accounts == readJSON(file)
      acct == [id |-> t, name |-> name, email |-> email, role |-> "user", createdAt |-> t,
               description |-> Undefined,
               passwordHash |-> hashPassword(password, salt), passwordSalt |-> salt,
               resetTokenHash |-> NullHash, resetTokenExpiry |-> Null]
  IN  IF Missing(email) \/ Missing(password)
        THEN [resp |-> Error(rq, 400, "email and password required"), file |-> file]
      ELSE IF emailExists(accounts, email)
        THEN [resp |-> Error(rq, 409, "email exists"), file |-> file]
      ELSE IF hashThrows(password, salt)
        THEN [resp |-> catchText(rq, "hash"), file |-> file]
      ELSE [resp |-> [Ok(rq, 201, <<[id |-> acct.id, email |-> acct.email, name |-> acct.name,
                                     createdAt |-> acct.createdAt, role |-> acct.role]>>)
                       EXCEPT !.wrote = TRUE],
            file |-> writeJSON(Append(accounts, acct))]

\* a login that stores the upgraded credential of a legacy account before it
\* has compared the password
login_UpgradeUnverified(file, email, password, newSalt) ==
  LET rq == Request("login", email, password, NoToken, NoId)
      accounts == readJSON(file)
      i == findByEmail(accounts, email)
      acct == accounts[i]
      upgraded == setPassword(acct, password, newSalt)
  IN  IF Missing(email) \/ Missing(password)
        THEN [resp |-> Error(rq, 400, "email and password required"), file |-> file]
      ELSE IF i = 0
        THEN [resp |-> Error(rq, 401, "invalid credentials"), file |-> file]
      ELSE IF hashThrows(password, acct.passwordSalt)
        THEN [resp |-> catchJSON(rq, "hash"), file |-> file]
      ELSE IF verify(password, acct)
        THEN [resp |-> Ok(rq, 200, <<safe(acct)>>), file |-> file]
      ELSE IF md5(password) = acct.passwordHash
        THEN [resp |-> [Ok(rq, 200, <<safe(upgraded)>>) EXCEPT !.wrote = TRUE],
              file |-> writeJSON([accounts EXCEPT ![i] = upgraded])]
      ELSE [resp |-> [Error(rq, 401, "invalid credentials") EXCEPT !.wrote = TRUE],
            file |-> writeJSON([accounts EXCEPT ![i] = upgraded])]

\* POST /api/accounts/login
login(file, email, password, newSalt) ==
  LET rq == Request("login", email, password, NoToken, NoId)
      accounts == readJSON(file)
      i == findByEmail(accounts, email)
      acct == accounts[i]
      upgraded == setPassword(acct, password, newSalt)
  IN  IF Missing(email) \/ Missing(password)
        THEN [resp |-> Error(rq, 400, "email and password required"), file |-> file]
      ELSE IF i = 0
        THEN [resp |-> Error(rq, 401, "invalid credentials"), file |-> file]
      ELSE IF hashThrows(password, acct.passwordSalt)
        THEN [resp |-> catchJSON(rq, "hash"), file |-> file]
      ELSE IF verify(password, acct)
        THEN [resp |-> Ok(rq, 200, <<safe(acct)>>), file |-> file]
      ELSE IF md5(password) = acct.passwordHash
        THEN [resp |-> [Ok(rq, 200, <<safe(upgraded)>>) EXCEPT !.wrote = TRUE],
              file |-> writeJSON([accounts EXCEPT ![i] = upgraded])]
      ELSE [resp |-> Error(rq, 401, "invalid credentials"), file |-> file]


\* GET /api/accounts
list(file) ==
  [resp |-> Ok(Request("list", "", "", NoToken, NoId), 200,
               sanitizeAccountsForPublic(readJSON(file))),
   file |-> file]

\* GET /api/account?id=
getById(file, id) ==
  LET rq == Request("get", "", "", NoToken, id)
      accounts == readJSON(file)
      i == findById(accounts, id)
  IN  IF id = NoId THEN [resp |-> Error(rq, 400, "id required"), file |-> file]
      ELSE IF i = 0 THEN [resp |-> Error(rq, 404, "not found"), file |-> file]
      ELSE [resp |-> Ok(rq, 200, <<safe(accounts[i])>>), file |-> file]

\* POST /api/accounts/update
update(file, id, name, description) ==
  LET rq == Request("update", "", "", NoToken, id)
      accounts == readJSON(file)
      i == findById(accounts, id)
      acct == applyUpdate(accounts[i], name, description)
  IN  IF id = NoId THEN [resp |-> Error(rq, 400, "id required"), file |-> file]
      ELSE IF i = 0 THEN [resp |-> Error(rq, 404, "not found"), file |-> file]
      ELSE [resp |-> [Ok(rq, 200, <<[id |-> acct.id, name |-> acct.name,
                                     description |-> acct.description]>>)
                       EXCEPT !.wrote = TRUE],
            file |-> writeJSON([accounts EXCEPT ![i] = acct])]

\* POST /api/accounts/request-reset
requestReset(file, email, token, t) ==
  LET rq == Request("request-reset", email, "", NoToken, NoId)
      accounts == readJSON(file)
      i == findByEmail(accounts, email)
      acct == issue(accounts[i], token, t)
  IN  IF Missing(email) THEN [resp |-> Error(rq, 400, "email required"), file |-> file]
      ELSE IF i = 0 THEN [resp |-> Error(rq, 404, "not found"), file |-> file]
      ELSE [resp |-> [rq EXCEPT !.status = 200, !.token = token, !.wrote = TRUE],
            file |-> writeJSON([accounts EXCEPT ![i] = acct])]

\* a reset handler that compares the token before it looks at the expiry time
completeReset_TokenFirst(file, email, token, newPassword, salt, t) ==
  LET rq == Request("reset", email, newPassword, token, NoId)
      accounts == readJSON(file)
      i == findByEmail(accounts, email)
      acct == accounts[i]
      changed == consume(setPassword(acct, newPassword, salt))
  IN  IF Missing(email) \/ token = NoToken \/ Missing(newPassword)
        THEN [resp |-> Error(rq, 400, "email,token,newPassword required"), file |-> file]
      ELSE IF i = 0 \/ acct.resetTokenHash = NullHash \/ acct.resetTokenExpiry = Null
        THEN [resp |-> Error(rq, 400, "no reset requested"), file |-> file]
      ELSE IF sha256(token) # acct.resetTokenHash
        THEN [resp |-> Error(rq, 400, "invalid token"), file |-> file]
      ELSE IF expired(t, acct)
        THEN [resp |-> Error(rq, 400, "token expired"), file |-> file]
      ELSE IF hashThrows(newPassword, salt)
        THEN [resp |-> catchJSON(rq, "hash"), file |-> file]
      ELSE [resp |-> [rq EXCEPT !.status = 200, !.wrote = TRUE],
            file |-> writeJSON([accounts EXCEPT ![i] = changed])]

\* POST /api/accounts/reset
completeReset(file, email, token, newPassword, salt, t) ==
  LET rq == Request("reset", email, newPassword, token, NoId)
      accounts == readJSON(file)
      i == findByEmail(accounts, email)
      acct == accounts[i]
      changed == consume(setPassword(acct, newPassword, salt))
  IN  IF Missing(email) \/ token = NoToken \/ Missing(newPassword)
        THEN [resp |-> Error(rq, 400, "email,token,newPassword required"), file |-> file]
      ELSE IF i = 0 \/ acct.resetTokenHash = NullHash \/ acct.resetTokenExpiry = Null
        THEN [resp |-> Error(rq, 400, "no reset requested"), file |-> file]
      ELSE IF expired(t, acct)
        THEN [resp |-> Error(rq, 400, "token expired"), file |-> file]
      ELSE IF sha256(token) # acct.resetTokenHash
        THEN [resp |-> Error(rq, 400, "invalid token"), file |-> file]
      ELSE IF hashThrows(newPassword, salt)
        THEN [resp |-> catchJSON(rq, "hash"), file |-> file]
      ELSE [resp |-> [rq EXCEPT !.status = 200, !.wrote = TRUE],
            file |-> writeJSON([accounts EXCEPT ![i] = changed])]

\* the static-file fallback: path.join(root, decodeURIComponent(url)), then index.html
static(file, url) ==
  LET rq == [Request("static", "", "", NoToken, NoId) EXCEPT !.json = FALSE]
  IN  IF url = "/database/accounts.json" /\ file.exists
        THEN [resp |-> Ok(rq, 200, file.accounts), file |-> file]
      ELSE [resp |-> Ok(rq, 200, <<>>), file |-> file]

\* a POST whose body is not JSON: getRequestData rejects, the body callback does
\* not run and the .catch of the endpoint answers
malformed(file, op) ==
  LET rq == Request(op, "", "", NoToken, NoId)
  IN  [resp |-> IF op = "signup" THEN catchText(rq, "body") ELSE catchJSON(rq, "body"),
       file |-> file]

(* ---------------- state machine ---------------- *)
\* the password a stored credential was computed from
PasswordOf(acct) == acct.passwordHash[2]

InitialFiles ==
  {NoFile, writeJSON(<<LegacyAccount(NoSalt)>>), writeJSON(<<LegacyAccount(EmptySalt)>>)}

\* a store left by an earlier run: one legacy account, or one account made by signup
EarlierFiles ==
  {writeJSON(<<LegacyAccount(EmptySalt)>>), signup(NoFile, "a@x", "p1", Undefined, 1, 1).file}

InitWith(files) ==
  /\ accountsFile \in files
  /\ now = StartTime
  /\ ticks = <<0, 0>>
  /\ nextToken = 1
  /\ nWrites = 0
  /\ resp = NoReq
  /\ watching = {}
  /\ pending = [s \in Subscribers |-> 0]
  /\ received = [s \in Subscribers |-> 0]
  /\ expected = [s \in Subscribers |-> 0]
  /\ lastEvent = [to |-> "", seq |-> 0, outcome |-> "", accounts |-> <<>>]
  /\ signedUp = [e \in Emails |-> None]
  /\ lastReset = [e \in Emails |-> None]
  /\ oldPasswords = [e \in Emails |-> {}]
  /\ usedTokens = [e \in Emails |-> {}]
  /\ issued = [e \in Emails |-> NoToken]

Init == InitWith(InitialFiles)

InitReset == InitWith(EarlierFiles)

\* a token sent to a client in an earlier run of the server, now lost
EarlierToken == -1

\* the store after an earlier run in which a reset was requested one validity
\* window before this run starts: the reset is pending and expires at StartTime
PendingFile ==
  LET accounts == readJSON(signup(NoFile, "a@x", "p1", Undefined, 1, 1).file)
  IN  writeJSON(<<[accounts[1] EXCEPT !.resetTokenHash = sha256(EarlierToken),
                                      !.resetTokenExpiry = StartTime]>>)

\* writeFileSync on a watched file queues k callbacks on every open watcher; with
\* coalesce, the change is merged into a callback that is still queued
Notify(k, coalesce) ==
  /\ pending' = [s \in Subscribers |->
                   IF s \notin watching THEN pending[s]
                   ELSE IF coalesce /\ pending[s] > 0 THEN pending[s]
                   ELSE pending[s] + k]
  /\ expected' = [s \in Subscribers |-> IF s \in watching THEN expected[s] + 1 ELSE expected[s]]

\* a completed reset uses up a token, so these writes are bounded by MaxTokens
CountedWrite(r) == r.resp.wrote /\ r.resp.op # "reset"

\* a handler has run: its response is sent and, if it wrote, the file is replaced
Apply(r) ==
  /\ resp' = r.resp
  /\ accountsFile' = r.file
  /\ CountedWrite(r) => nWrites < MaxWrites
  /\ IF r.resp.wrote
       THEN /\ nWrites' = IF CountedWrite(r) THEN nWrites + 1 ELSE nWrites
            /\ \E k \in WatchEvents, coalesce \in BOOLEAN : Notify(k, coalesce)
       ELSE UNCHANGED <<nWrites, pending, expected>>
  /\ UNCHANGED <<now, ticks, watching, received, lastEvent>>

History == <<signedUp, lastReset, oldPasswords, usedTokens, issued>>

Signup ==
  \E email \in Emails, password \in Passwords, name \in {Undefined}, salt \in Salts :
    LET r == signup(accountsFile, email, password, name, salt, now) IN
    /\ r.resp.status = 201 => Len(readJSON(accountsFile)) < MaxAccounts
    /\ Apply(r)
    /\ signedUp' = IF r.resp.status = 201
                     THEN [signedUp EXCEPT ![email] = <<password, r.resp.accounts[1].id>>]
                     ELSE signedUp
    /\ UNCHANGED <<nextToken, lastReset, oldPasswords, usedTokens, issued>>

Login ==
  \E email \in Emails, password \in Passwords, salt \in Salts :
    /\ Apply(login(accountsFile, email, password, salt))
    /\ UNCHANGED <<nextToken, History>>

List ==
  /\ Apply(list(accountsFile))
  /\ UNCHANGED <<nextToken, History>>

GetById ==
  \E id \in {NoId, 1, now} :
    /\ Apply(getById(accountsFile, id))
    /\ UNCHANGED <<nextToken, History>>

Update ==
  \E id \in {NoId, 1, StartTime}, name \in Names, description \in Descriptions :
    /\ Apply(update(accountsFile, id, name, description))
    /\ UNCHANGED <<nextToken, History>>

RequestReset ==
  \E email \in Emails :
    LET r == requestReset(accountsFile, email, nextToken, now) IN
    /\ nextToken <= MaxTokens
    /\ Apply(r)
    /\ nextToken' = IF r.resp.status = 200 THEN nextToken + 1 ELSE nextToken
    /\ issued' = IF r.resp.status = 200 THEN [issued EXCEPT ![email] = nextToken] ELSE issued
    /\ UNCHANGED <<signedUp, lastReset, oldPasswords, usedTokens>>

CompleteReset ==
  \E email \in Emails, token \in 0..MaxTokens, newPassword \in Passwords, salt \in Salts :
    LET r == completeReset(accountsFile, email, token, newPassword, salt, now)
        old == PasswordOf(readJSON(accountsFile)[findByEmail(readJSON(accountsFile), email)])
    IN
    /\ Apply(r)
    /\ IF r.resp.status = 200
         THEN /\ lastReset' = [lastReset EXCEPT ![email] = <<old, newPassword>>]
              /\ oldPasswords' = [oldPasswords EXCEPT ![email] = @ \cup {old}]
              /\ usedTokens' = [usedTokens EXCEPT ![email] = @ \cup {token}]
         ELSE UNCHANGED <<lastReset, oldPasswords, usedTokens>>
    /\ UNCHANGED <<nextToken, signedUp, issued>>

Static ==
  \E url \in Urls :
    /\ Apply(static(accountsFile, url))
    /\ UNCHANGED <<nextToken, History>>

Malformed ==
  \E op \in BodyOps :
    /\ Apply(malformed(accountsFile, op))
    /\ UNCHANGED <<nextToken, History>>

\* GET /sse/updates: fs.watch throws ENOENT when accounts.json does not exist
Connect ==
  \E s \in Subscribers \ watching :
    /\ accountsFile.exists
    /\ watching' = watching \cup {s}
    /\ pending' = [pending EXCEPT ![s] = 0]
    /\ received' = [received EXCEPT ![s] = 0]
    /\ expected' = [expected EXCEPT ![s] = 0]
    /\ UNCHANGED <<accountsFile, now, ticks, nextToken, nWrites, resp, lastEvent, History>>

\* req.on('close'): the watchers are closed, queued callbacks are dropped
Close ==
  \E s \in watching :
    /\ watching' = watching \ {s}
    /\ pending' = [pending EXCEPT ![s] = 0]
    /\ UNCHANGED <<accountsFile, now, ticks, nextToken, nWrites, resp, received, expected,
                   lastEvent, History>>

\* one fs.watch callback of the accounts watcher runs: re-read, sanitize, write
\* the event. The callback has no try/catch and the process has no
\* uncaughtException handler: when the re-read throws (readFileSync or
\* JSON.parse), the process ends and every subscriber's connection with it.
\* When res.write fails, nothing is sent and nothing else is done.
watcherCallback(outcomes) ==
  \E s \in watching, outcome \in outcomes :
    /\ pending[s] > 0
    /\ lastEvent' = [to |-> s, seq |-> 1 - lastEvent.seq, outcome |-> outcome,
                     accounts |-> IF outcome = "sent"
                                    THEN sanitizeAccountsForPublic(accountsFile.accounts)
                                    ELSE <<>>]
    /\ received' = IF outcome = "sent" THEN [received EXCEPT ![s] = @ + 1] ELSE received
    /\ IF outcome = "read failed"
         THEN /\ watching' = {}
              /\ pending' = [t \in Subscribers |-> 0]
         ELSE /\ watching' = watching
              /\ pending' = [pending EXCEPT ![s] = @ - 1]
    /\ UNCHANGED <<accountsFile, now, ticks, nextToken, nWrites, resp, expected, History>>

\* a callback while reading the file and writing to the socket work
Deliver == watcherCallback({"sent"})

\* a callback that may fail
DeliverOrFail == watcherCallback(Outcomes)

\* the clock advances by a millisecond
Tick ==
  /\ ticks[1] < MaxTicks
  /\ now' = now + 1
  /\ ticks' = <<ticks[1] + 1, ticks[2]>>
  /\ UNCHANGED <<accountsFile, nextToken, nWrites, resp, watching, pending, received,
                 expected, lastEvent, History>>

\* the clock advances by the validity window of a reset token
Jump ==
  /\ ticks[2] < MaxJumps
  /\ now' = now + ResetValidity
  /\ ticks' = <<ticks[1], ticks[2] + 1>>
  /\ UNCHANGED <<accountsFile, nextToken, nWrites, resp, watching, pending, received,
                 expected, lastEvent, History>>

\* signup, login, the views, update and reset requests, with no subscriber connected
Next ==
  \/ Signup \/ Login \/ List \/ GetById \/ Update \/ RequestReset \/ Static \/ Malformed
  \/ Tick

Spec == Init /\ [][Next]_vars

\* accounts made by signup on an empty store, with every request that writes them
NextSignup ==
  \/ Signup \/ Login \/ Update \/ RequestReset \/ CompleteReset \/ Tick

SpecSignup == InitWith({NoFile}) /\ [][NextSignup]_vars

\* the reset flow on an existing account, to completion, with the clock passing
\* the validity window
NextReset ==
  \/ RequestReset \/ CompleteReset \/ Login \/ Tick \/ Jump

SpecReset == InitReset /\ [][NextReset]_vars

\* every request that can be answered with an error, on a store with a reset
\* that is about to expire
NextErrors ==
  \/ Signup \/ Login \/ GetById \/ Update \/ RequestReset \/ CompleteReset \/ Malformed
  \/ Tick

SpecErrors == InitWith({PendingFile}) /\ [][NextErrors]_vars

\* the subscribers of /sse/updates while update requests write accounts.json
NextHub ==
  \/ Connect \/ Close \/ Deliver \/ Update

SpecHub == InitReset /\ [][NextHub]_vars

\* the same, with watcher callbacks that can fail
NextHubFail ==
  \/ Connect \/ Close \/ DeliverOrFail \/ Update

SpecHubFail == InitReset /\ [][NextHubFail]_vars

(* ---------------- properties ---------------- *)
Registered(file, email) == findByEmail(readJSON(file), email) # 0

AccountOf(file, email) == readJSON(file)[findByEmail(readJSON(file), email)]

\* this step is the handling of one request of the given kind: every request
\* action sets resp, and every other action moves the clock or a subscriber
Handled(op) ==
  /\ resp'.op = op
  /\ now' = now
  /\ watching' = watching
  /\ received' = received
  /\ lastEvent' = lastEvent

NoSensitive(views) ==
  \A i \in 1..Len(views) : (DOMAIN views[i]) \cap SensitiveFields = {}

\* C1: no response body and no event payload sent to a client contains an
\* account's passwordHash, passwordSalt, resetTokenHash or resetTokenExpiry.
C1_NoCredentialSent ==
  NoSensitive(resp.accounts) /\ NoSensitive(lastEvent.accounts)

\* C2: once signup(email, password) has answered 201 with id X, a login with
\* the same email and password answers 200 with id X, whatever requests come
\* in between, as long as no reset for that email has completed.
C2_SignupThenLogin ==
  ( /\ resp.op = "login"
    /\ signedUp[resp.email] # None
    /\ resp.password = signedUp[resp.email][1]
    /\ lastReset[resp.email] = None )
  => /\ resp.status = 200
     /\ resp.accounts[1].id = signedUp[resp.email][2]

\* a login after signup succeeds while a reset requested in between is pending
C2_Witness ==
  /\ resp.op = "login"
  /\ signedUp[resp.email] # None
  /\ resp.password = signedUp[resp.email][1]
  /\ lastReset[resp.email] = None
  /\ issued[resp.email] # NoToken
  /\ resp.status = 200

\* C3 as stated: a signup whose email is already in the store answers 409
\* whatever password it carries, and leaves the store as it was.
C3_DuplicateAlways409 ==
  [][(Handled("signup") /\ Registered(accountsFile, resp'.email))
       => (resp'.status = 409 /\ accountsFile' = accountsFile)]_vars

\* C3 amended: a signup whose email is already in the store leaves the store as
\* it was; it answers 409 when it carries a non-empty password, whatever that
\* password is, and 400 when the password is missing or empty.
C3_DuplicateRejected ==
  [][(Handled("signup") /\ Registered(accountsFile, resp'.email))
       => /\ accountsFile' = accountsFile
          /\ resp'.status = IF Missing(resp'.password) THEN 400 ELSE 409]_vars

\* a signup for a stored email was refused with 409 although its password differs
C3_Witness ==
  /\ resp.op = "signup"
  /\ resp.status = 409
  /\ Registered(accountsFile, resp.email)
  /\ resp.password # PasswordOf(AccountOf(accountsFile, resp.email))

\* the request carries a token and a password that is a non-empty string
WellFormedReset(r) == r.token # NoToken /\ ~Missing(r.password) /\ r.password # NumPw

\* the token is the one the last request-reset for the email returned, the
\* reset it belongs to is still pending and the clock is within its window
PendingToken(email, token) ==
  /\ token # NoToken
  /\ issued[email] = token
  /\ token \notin usedTokens[email]
  /\ Registered(accountsFile, email)
  /\ now <= AccountOf(accountsFile, email).resetTokenExpiry

\* C4 as stated: a completeReset with the token requestReset returned, sent
\* before the expiry time, succeeds, and from then on a login with the old
\* password answers 401 and a login with the new password answers 200.
C4_ResetForever ==
  [][/\ (Handled("reset") /\ PendingToken(resp'.email, resp'.token)
           /\ WellFormedReset(resp'))
        => resp'.status = 200
     /\ (resp'.op = "login" /\ resp'.password \in oldPasswords'[resp'.email])
        => resp'.status = 401
     /\ (resp'.op = "login" /\ lastReset'[resp'.email] # None
           /\ resp'.password = lastReset'[resp'.email][2])
        => resp'.status = 200]_vars

\* C4 amended: a completeReset with the pending token, sent within the window,
\* succeeds; until another reset for that email completes, a login with the new
\* password answers 200 and a login with the old password answers 401 when the
\* two passwords differ.
C4_ResetThenLogin ==
  [][/\ (Handled("reset") /\ PendingToken(resp'.email, resp'.token)
           /\ WellFormedReset(resp'))
        => resp'.status = 200
     /\ (resp'.op = "login" /\ lastReset'[resp'.email] # None
           /\ resp'.password = lastReset'[resp'.email][1]
           /\ lastReset'[resp'.email][1] # lastReset'[resp'.email][2])
        => resp'.status = 401
     /\ (resp'.op = "login" /\ lastReset'[resp'.email] # None
           /\ resp'.password = lastReset'[resp'.email][2])
        => resp'.status = 200]_vars

\* after a reset to another password, a login with the old password was refused
C4_Witness ==
  /\ resp.op = "login"
  /\ lastReset[resp.email] # None
  /\ resp.password = lastReset[resp.email][1]
  /\ lastReset[resp.email][1] # lastReset[resp.email][2]
  /\ resp.status = 401

\* C5: once a reset has completed with token T for an account, every later
\* completeReset with T for that account answers 400 and writes nothing.
C5_TokenSingleUse ==
  [][(Handled("reset") /\ resp'.token \in usedTokens[resp'.email])
       => (resp'.status = 400 /\ accountsFile' = accountsFile)]_vars

\* the token of a completed reset was presented again and refused
C5_Witness ==
  /\ resp.op = "reset"
  /\ resp.token \in usedTokens[resp.email]
  /\ WellFormedReset(resp)
  /\ resp.status = 400
  /\ lastReset[resp.email] # None

\* C6: a completeReset (email, token and new password present) that arrives
\* when the clock is past the account's resetTokenExpiry answers 400 'token
\* expired' and writes nothing, also when the token is the right one.
C6_ExpiredRejected ==
  [][( /\ Handled("reset")
       /\ resp'.token # NoToken /\ ~Missing(resp'.password)
       /\ Registered(accountsFile, resp'.email)
       /\ AccountOf(accountsFile, resp'.email).resetTokenExpiry # Null
       /\ now > AccountOf(accountsFile, resp'.email).resetTokenExpiry )
       => /\ resp'.status = 400
          /\ resp'.error = "token expired"
          /\ accountsFile' = accountsFile]_vars

\* the right token was refused as expired, and the reset is still pending
C6_Witness ==
  /\ resp.op = "reset"
  /\ resp.error = "token expired"
  /\ resp.token = issued[resp.email]
  /\ WellFormedReset(resp)
  /\ AccountOf(accountsFile, resp.email).resetTokenHash = sha256(resp.token)
  /\ now > AccountOf(accountsFile, resp.email).resetTokenExpiry

\* the stored credential is the unsalted legacy digest of the password
LegacyCredential(acct, password) == acct.passwordHash = md5(password)

\* C7: for an account that holds only the legacy digest of its password, a
\* login with that password answers 200 and stores a salt and a strong hash;
\* a login on an account that holds the strong hash of the password answers 200
\* and writes nothing.
C7_LegacyUpgrade ==
  [][(Handled("login") /\ ~Missing(resp'.password)
        /\ Registered(accountsFile, resp'.email))
       => LET before == AccountOf(accountsFile, resp'.email)
              after == AccountOf(accountsFile', resp'.email)
          IN  /\ LegacyCredential(before, resp'.password)
                 => /\ resp'.status = 200
                    /\ after.passwordSalt # before.passwordSalt
                    /\ after.passwordHash = hashPassword(resp'.password, after.passwordSalt)
              /\ (before.passwordSalt # NoSalt
                    /\ before.passwordHash = hashPassword(resp'.password, before.passwordSalt))
                 => /\ resp'.status = 200
                    /\ accountsFile' = accountsFile]_vars

\* C8: every write of accounts.json gives each subscriber connected at that
\* time exactly one 'accounts' event: a subscriber never has more events than
\* there were writes since it connected, and has as many once no callback is
\* queued; writes from before it connected give it nothing.
C8_OneEventPerChange ==
  \A s \in watching :
    /\ received[s] <= expected[s]
    /\ pending[s] = 0 => received[s] = expected[s]

\* C9: a login with both fields present (as strings) answers 401 'invalid
\* credentials' in the same way when the email is not registered and when the
\* email is registered but the password is not the account's password.
C9_UniformAuthError ==
  ( /\ resp.op = "login"
    /\ ~Missing(resp.email) /\ ~Missing(resp.password)
    /\ resp.password # NumPw
    /\ \/ ~Registered(accountsFile, resp.email)
       \/ PasswordOf(AccountOf(accountsFile, resp.email)) # resp.password )
  => /\ resp.status = 401
     /\ resp.json
     /\ resp.error = "invalid credentials"

\* C10: an update changes nothing but the name and the description of the
\* account with the id it names: the number of accounts, every other field
\* of that account and every field of every other account stay as they were.
C10_UpdateFrame ==
  [][(Handled("update"))
       => LET before == readJSON(accountsFile)
              after == readJSON(accountsFile')
          IN  /\ Len(after) = Len(before)
              /\ \A i \in 1..Len(before) :
                   /\ \A f \in AccountFields \ {"name", "description"} :
                        after[i][f] = before[i][f]
                   /\ before[i].id # resp'.id => after[i] = before[i]]_vars

\* an update renamed one of two stored accounts
C10_Witness ==
  /\ resp.op = "update"
  /\ resp.status = 200
  /\ Len(readJSON(accountsFile)) = 2
  /\ \E i \in 1..Len(readJSON(accountsFile)) :
       /\ readJSON(accountsFile)[i].id = resp.id
       /\ readJSON(accountsFile)[i].name = "n1"

\* C11: no two accounts in the store have the same email, whatever the order
\* in which the signup requests that are in progress at the same time are
\* handled (each one is checked and appended in one synchronous callback).
C11_UniqueEmail ==
  \A i, j \in 1..Len(readJSON(accountsFile)) :
    readJSON(accountsFile)[i].email = readJSON(accountsFile)[j].email => i = j

\* a second signup for an email was refused in the same millisecond in which
\* the first one created the account, and the store holds two accounts
C11_Witness ==
  /\ resp.op = "signup"
  /\ resp.status = 409
  /\ Len(readJSON(accountsFile)) = 2
  /\ AccountOf(accountsFile, resp.email).createdAt = now

\* C12: no two accounts in the store have the same id, also when signups with
\* different emails are handled within the same clock tick.
C12_UniqueId ==
  \A i, j \in 1..Len(readJSON(accountsFile)) :
    readJSON(accountsFile)[i].id = readJSON(accountsFile)[j].id => i = j

\* C13: every account created through signup has resetTokenHash and
\* resetTokenExpiry either both null (no reset pending) or both set (a reset
\* pending), after every request.
C13_ResetFieldsPaired ==
  \A i \in 1..Len(readJSON(accountsFile)) :
    (readJSON(accountsFile)[i].resetTokenHash = NullHash)
      <=> (readJSON(accountsFile)[i].resetTokenExpiry = Null)

\* the reset requested for an account made by signup has completed: the two
\* fields, both set by the request, are both null again
C13_Witness ==
  /\ resp.op = "reset"
  /\ resp.status = 200
  /\ signedUp[resp.email] # None
  /\ issued[resp.email] = resp.token
  /\ AccountOf(accountsFile, resp.email).resetTokenHash = NullHash
  /\ AccountOf(accountsFile, resp.email).resetTokenExpiry = Null

\* C14: every error response of an account endpoint has a JSON body of the
\* form {error: message}, and a request whose body is not valid JSON gets 400
\* {error: 'invalid body'} on every endpoint that reads a body, signup included.
C14_JsonErrors ==
  /\ (resp.op \in BodyOps \cup {"get", "list"} /\ resp.status >= 400) => resp.json
  /\ (resp.op \in BodyOps /\ resp.thrown = "body")
       => (resp.status = 400 /\ resp.json /\ resp.error = "invalid body")

\* C15: an internal failure while an account request is handled (here: the
\* hashing step throwing inside the handler's body callback) is answered with
\* the generic 500 {error: 'server error'} and never with another status.
C15_InternalFailure500 ==
  resp.thrown = "hash"
    => (resp.status = 500 /\ resp.json /\ resp.error = "server error")

\* this step is one watcher callback of subscriber s
CallbackOf(s) == lastEvent'.seq # lastEvent.seq /\ lastEvent'.to = s

\* C16: a subscriber gets events only while it is connected: a callback runs
\* only for a connected subscriber, a disconnect closes its watchers and drops
\* what was queued for it, and a subscriber whose event could not be written is
\* removed as well.
C16_SubscriberRemoved ==
  [][\A s \in Subscribers :
       /\ CallbackOf(s) => s \in watching
       /\ (s \in watching /\ s \notin watching') => pending'[s] = 0
       /\ (CallbackOf(s) /\ lastEvent'.outcome = "write failed") => s \notin watching']_vars

\* C17: when the callback of one subscriber fails (the write fails or the
\* re-read of the collection fails), every other connected subscriber stays
\* connected and keeps the callbacks queued for it.
C17_DeliveryIsolated ==
  [][\A s \in Subscribers :
       (CallbackOf(s) /\ lastEvent'.outcome # "sent")
         => \A o \in watching \ {s} : o \in watching' /\ pending'[o] = pending[o]]_vars

\* C18: a completeReset that carries email, token and a new password answers
\* 'no reset requested' when no reset is pending for the email, otherwise
\* 'token expired' when the clock is past the expiry time, otherwise 'invalid
\* token' when the token is not the pending one, and otherwise succeeds: a
\* wrong token after the expiry time is reported as expired, and the pending
\* token presented when the clock equals the expiry time is accepted.
C18_CheckOrder ==
  [][(Handled("reset") /\ ~Missing(resp'.email) /\ WellFormedReset(resp'))
       => LET acct == AccountOf(accountsFile, resp'.email)
          IN  IF \/ ~Registered(accountsFile, resp'.email)
                 \/ acct.resetTokenHash = NullHash
                 \/ acct.resetTokenExpiry = Null
                THEN resp'.status = 400 /\ resp'.error = "no reset requested"
              ELSE IF now > acct.resetTokenExpiry
                THEN resp'.status = 400 /\ resp'.error = "token expired"
              ELSE IF sha256(resp'.token) # acct.resetTokenHash
                THEN resp'.status = 400 /\ resp'.error = "invalid token"
              ELSE resp'.status = 200]_vars

\* a token that is not the pending one was presented after the expiry time and
\* the answer was 'token expired'
C18_Witness ==
  /\ resp.op = "reset"
  /\ WellFormedReset(resp)
  /\ resp.error = "token expired"
  /\ Registered(accountsFile, resp.email)
  /\ sha256(resp.token) # AccountOf(accountsFile, resp.email).resetTokenHash
  /\ now > AccountOf(accountsFile, resp.email).resetTokenExpiry

\* C19: a request answered with an error status (400, 401, 404, 409) leaves
\* the whole store as it was: a failed login changes no credential, a failed
\* completeReset changes neither the password nor the pending token fields.
C19_ErrorsWriteNothing ==
  [][resp'.status \in {400, 401, 404, 409} => accountsFile' = accountsFile]_vars

\* a login with a password that is not the account's was refused and the
\* account still holds the credential its signup stored
C19_Witness ==
  /\ resp.op = "login"
  /\ resp.status = 401
  /\ signedUp[resp.email] # None
  /\ resp.password # signedUp[resp.email][1]
  /\ lastReset[resp.email] = None
  /\ PasswordOf(AccountOf(accountsFile, resp.email)) = signedUp[resp.email][1]

\* the token was issued for the email before the one issued last (every token
\* issued so far was issued for this email)
Superseded(email, token) ==
  /\ issued[email] # NoToken
  /\ token \in 1..(issued[email] - 1)
  /\ \A e \in Emails \ {email} : issued[e] = NoToken

\* the reset requested last for the email is still pending
LatestPending(email) ==
  /\ Registered(accountsFile, email)
  /\ AccountOf(accountsFile, email).resetTokenHash = sha256(issued[email])

\* C20 as stated: once a second requestReset has replaced the pending token, a
\* completeReset with the earlier token answers 400 'invalid token'.
C20_EarlierTokenInvalid ==
  [][( /\ Handled("reset") /\ WellFormedReset(resp')
       /\ Superseded(resp'.email, resp'.token)
       /\ LatestPending(resp'.email) )
       => (resp'.status = 400 /\ resp'.error = "invalid token")]_vars

\* C20 amended: at most one reset token is valid per account. Once a second
\* requestReset has replaced the pending token, a completeReset with the
\* earlier token fails and changes nothing: with 'invalid token' while the new
\* token has not expired, with 'token expired' after that; and a completeReset
\* that succeeds carries the token issued last.
C20_OnlyLatestToken ==
  [][/\ ( /\ Handled("reset") /\ WellFormedReset(resp')
          /\ Superseded(resp'.email, resp'.token)
          /\ LatestPending(resp'.email) )
        => /\ resp'.status = 400
           /\ resp'.error = IF now > AccountOf(accountsFile, resp'.email).resetTokenExpiry
                              THEN "token expired" ELSE "invalid token"
           /\ accountsFile' = accountsFile
     /\ (Handled("reset") /\ resp'.status = 200)
        => resp'.token = issued[resp'.email]]_vars

\* the first of two tokens was presented within the window of the second and
\* refused with 'invalid token'; the second is still pending
C20_Witness ==
  /\ resp.op = "reset"
  /\ WellFormedReset(resp)
  /\ resp.error = "invalid token"
  /\ Superseded(resp.email, resp.token)
  /\ LatestPending(resp.email)

====
